---- MODULE Spec2Model ----
(***************************************************************************)
(* The lecture-to-notes page of app.py as a state machine.  One run of     *)
(* the script is one request: the credential is configured, the widgets    *)
(* are read, and when a recording is present and the generate button was   *)
(* pressed the recording is staged in a temporary file, uploaded, a        *)
(* prompt is selected, the model is asked to generate, the result is       *)
(* rendered and the temporary file is removed.  Texts are sequences of     *)
(* one-character strings so that replace(), lower() and substring tests    *)
(* are computed character by character.                                    *)
(***************************************************************************)
EXTENDS Integers, Sequences, FiniteSets, TLC

VARIABLES
    credential,       \* state of st.secrets["GEMINI_API_KEY"]: "valid", "missing", "invalid"
    lecture_topic,    \* text of the "Topic Name" input
    output_type,      \* value of the "Generate Content As:" selectbox
    uploaded_file,    \* payload held by the file uploader, or NoFile
    generate_button,  \* TRUE when the latest run was started by the generate button
    pc,               \* position of the latest run in the script ("Idle": no run in progress)
    banner,           \* TRUE when the latest run rendered the API-key error of line 13
    rendered,         \* elements rendered by lines 126-164 in the latest run, in order
    fs,               \* temporary directory: file name -> content
    temp_audio,       \* name of the NamedTemporaryFile of the latest run, 0 when none
    temp_audio_path,  \* the script's temp_audio_path, 0 while unassigned
    audio_file,       \* result of genai.upload_file, None or <<handle>>
    prompt,           \* the script's prompt, None or <<text>>
    response,         \* result of model.generate_content, None or <<response>>
    exc,              \* exception caught by "except Exception as e", None or <<e>>
    propagated,       \* exception that left the script run uncaught, None or <<e>>
    remoteFailure,    \* remote call that raised in the latest run: "none", "upload", "generate"
    uploadCalls,      \* genai.upload_file calls made by the latest run
    generateCalls     \* model.generate_content calls made by the latest run

vars == <<credential, lecture_topic, output_type, uploaded_file, generate_button, pc,
          banner, rendered, fs, temp_audio, temp_audio_path, audio_file, prompt,
          response, exc, propagated, remoteFailure, uploadCalls, generateCalls>>

-----------------------------------------------------------------------------
\* Bounds of the model.

\* Staging failures are injected only while at most MaxLeaks files exist.
MaxLeaks == 1

\* Free-form topics over TopicAlphabet have at most MaxTopicLen characters.
MaxTopicLen == 1

-----------------------------------------------------------------------------
\* Values.

None == << >>

Some(x) == <<x>>

NoFile == "none"

Recordings == {"lectureA.mp3", "lectureB.wav"}

Empty == "empty"

Partial == "partial"

TempNames == 1..(MaxLeaks + 1)

Credentials == {"valid", "missing", "invalid"}

StudyNotes == <<"S", "t", "u", "d", "y", " ", "N", "o", "t", "e", "s">>

Flashcards == <<"F", "l", "a", "s", "h", "c", "a", "r", "d", "s">>

Quiz == <<"M", "u", "l", "t", "i", "p", "l", "e", " ", "C", "h", "o", "i", "c", "e", " ", "Q",
    "u", "i", "z">>

OutputTypes == {StudyNotes, Flashcards, Quiz}

DefaultTopic == <<"N", "e", "w", " ", "L", "e", "c", "t", "u", "r", "e">>

TopicAlphabet == {"a", " "}

RECURSIVE SeqsUpTo(_, _)
SeqsUpTo(S, n) ==
    IF n = 0 THEN {<< >>}
    ELSE LET shorter == SeqsUpTo(S, n - 1)
         IN  shorter \cup {Append(s, c) : s \in shorter, c \in S}

Topics ==
    {DefaultTopic, <<"C", "e", "l", "l", " ", "B", "i", "o", "l", "o", "g", "y">>, <<"I", "n",
        "t", "r", "o", " ", "t", "o", " ", "T", "h", "e", "r", "m", "o", "d", "y", "n", "a", "m",
        "i", "c", "s">>}
        \cup SeqsUpTo(TopicAlphabet, MaxTopicLen)

FlashcardText == <<"*", "*", "F", "r", "o", "n", "t", ":", "*", "*", " ", "W", "h", "a", "t",
    " ", "i", "s", " ", "a", " ", "c", "e", "l", "l", "?", " ", "*", "*", "B", "a", "c", "k",
    ":", "*", "*", " ", "T", "h", "e", " ", "b", "a", "s", "i", "c", " ", "u", "n", "i", "t",
    " ", "o", "f", " ", "l", "i", "f", "e", ".">>

Texts == {FlashcardText, <<"#", " ", "N", "o", "t", "e", "s">>}

Responses ==
    {[kind |-> "text", text |-> t] : t \in Texts}
        \cup {[kind |-> "blocked", text |-> << >>]}

RemoteErrors ==
    {[type |-> "ResourceExhausted", desc |-> <<"4", "2", "9", " ", "q", "u", "o", "t", "a">>],
     [type |-> "PermissionDenied", desc |-> <<"4", "0", "3", " ", "k", "e", "y">>]}

StagingError == [type |-> "OSError", desc |-> <<"N", "o", " ", "s", "p", "a", "c", "e", " ", "l",
    "e", "f", "t">>]

TextError == [type |-> "ValueError", desc |-> <<"n", "o", " ", "v", "a", "l", "i", "d", " ", "P",
    "a", "r", "t">>]

-----------------------------------------------------------------------------
\* Text functions.

Contains(s, sub) ==
    \E i \in 0..(Len(s) - Len(sub)) : SubSeq(s, i + 1, i + Len(sub)) = sub

Replace(s, old, new) ==
    [i \in 1..Len(s) |-> IF s[i] = old THEN new ELSE s[i]]

UpperLetters == <<"A", "B", "C", "D", "E", "F", "G", "H", "I", "J", "K", "L", "M", "N", "O", "P",
    "Q", "R", "S", "T", "U", "V", "W", "X", "Y", "Z">>

LowerLetters == <<"a", "b", "c", "d", "e", "f", "g", "h", "i", "j", "k", "l", "m", "n", "o", "p",
    "q", "r", "s", "t", "u", "v", "w", "x", "y", "z">>

LowerChar(c) ==
    IF \E i \in 1..Len(UpperLetters) : UpperLetters[i] = c
    THEN LowerLetters[CHOOSE i \in 1..Len(UpperLetters) : UpperLetters[i] = c]
    ELSE c

Lower(s) == [i \in 1..Len(s) |-> LowerChar(s[i])]

\* SelectPrompt with the Flashcards branch lost: flashcards get the quiz prompt.
SelectPromptWithoutFlashcards(type, topic, audio) ==
    IF type = StudyNotes
    THEN <<"S", "u", "m", "m", "a", "r", "i", "z", "e", " ", "t", "h", "i", "s", " ", "l", "e",
        "c", "t", "u", "r", "e", " ", "o", "n", " ">> \o topic
         \o <<" ", "i", "n", "t", "o", " ", "s", "t", "r", "u", "c", "t", "u", "r", "e", "d",
             " ", "s", "t", "u", "d", "y", " ", "n", "o", "t", "e", "s", " ", "w", "i", "t", "h",
             " ", "h", "e", "a", "d", "i", "n", "g", "s", " ", "a", "n", "d", " ", "b", "o", "l",
             "d", " ", "k", "e", "y", " ", "t", "e", "r", "m", "s", ".">>
    ELSE <<"C", "r", "e", "a", "t", "e", " ", "a", " ", "5", "-", "q", "u", "e", "s", "t", "i",
        "o", "n", " ", "m", "u", "l", "t", "i", "p", "l", "e", " ", "c", "h", "o", "i", "c", "e",
        " ", "q", "u", "i", "z", " ", "w", "i", "t", "h", " ", "c", "o", "r", "r", "e", "c", "t",
        " ", "a", "n", "s", "w", "e", "r", "s", " ", "a", "n", "d", " ", "e", "x", "p", "l", "a",
        "n", "a", "t", "i", "o", "n", "s", " ", "b", "a", "s", "e", "d", " ", "o", "n", " ", "t",
        "h", "i", "s", " ">>
         \o topic \o <<" ", "l", "e", "c", "t", "u", "r", "e", ".">>

\* Lines 137-142: the prompt for the selected output type.
SelectPrompt(type, topic, audio) ==
    IF type = StudyNotes
    THEN <<"S", "u", "m", "m", "a", "r", "i", "z", "e", " ", "t", "h", "i", "s", " ", "l", "e",
        "c", "t", "u", "r", "e", " ", "o", "n", " ">> \o topic
         \o <<" ", "i", "n", "t", "o", " ", "s", "t", "r", "u", "c", "t", "u", "r", "e", "d",
             " ", "s", "t", "u", "d", "y", " ", "n", "o", "t", "e", "s", " ", "w", "i", "t", "h",
             " ", "h", "e", "a", "d", "i", "n", "g", "s", " ", "a", "n", "d", " ", "b", "o", "l",
             "d", " ", "k", "e", "y", " ", "t", "e", "r", "m", "s", ".">>
    ELSE IF type = Flashcards
    THEN <<"I", "d", "e", "n", "t", "i", "f", "y", " ", "k", "e", "y", " ", "t", "e", "r", "m",
        "s", " ", "f", "r", "o", "m", " ", "t", "h", "i", "s", " ", "l", "e", "c", "t", "u", "r",
        "e", " ", "o", "n", " ">> \o topic
         \o <<" ", "a", "n", "d", " ", "c", "r", "e", "a", "t", "e", " ", "Q", "&", "A", " ",
             "f", "l", "a", "s", "h", "c", "a", "r", "d", "s", ".", " ", "F", "o", "r", "m", "a",
             "t", ":", " ", "*", "*", "F", "r", "o", "n", "t", ":", "*", "*", " ", "[", "Q", "u",
             "e", "s", "t", "i", "o", "n", "]", " ", "*", "*", "B", "a", "c", "k", ":", "*", "*",
             " ", "[", "A", "n", "s", "w", "e", "r", "]", ".">>
    ELSE <<"C", "r", "e", "a", "t", "e", " ", "a", " ", "5", "-", "q", "u", "e", "s", "t", "i",
        "o", "n", " ", "m", "u", "l", "t", "i", "p", "l", "e", " ", "c", "h", "o", "i", "c", "e",
        " ", "q", "u", "i", "z", " ", "w", "i", "t", "h", " ", "c", "o", "r", "r", "e", "c", "t",
        " ", "a", "n", "s", "w", "e", "r", "s", " ", "a", "n", "d", " ", "e", "x", "p", "l", "a",
        "n", "a", "t", "i", "o", "n", "s", " ", "b", "a", "s", "e", "d", " ", "o", "n", " ", "t",
        "h", "i", "s", " ">>
         \o topic \o <<" ", "l", "e", "c", "t", "u", "r", "e", ".">>

\* Line 155: the suggested file name of the download.
FileName(topic, type) ==
    Replace(topic, " ", "_") \o <<"_">> \o Lower(type) \o <<".", "m", "d">>

\* Line 148.
Heading(topic) == <<"#", "#", "#", " ", "R", "e", "s", "u", "l", "t", "s", " ", "f", "o", "r",
    ":", " ">> \o topic

\* ErrorMessage that drops the exception's description.
ErrorMessageWithoutCause(e) == <<"P", "r", "o", "c", "e", "s", "s", "i", "n", "g", " ", "E", "r",
    "r", "o", "r">>

\* Line 160.
ErrorMessage(e) == <<"P", "r", "o", "c", "e", "s", "s", "i", "n", "g", " ", "E", "r", "r", "o",
    "r", ":", " ">> \o e.desc

Element(fn, body, file_name) == [fn |-> fn, body |-> body, file_name |-> file_name]

\* Lines 147-149: st.success, the heading, and the text when it can be read.
SuccessElements(topic) ==
    <<Element("success", <<"A", "n", "a", "l", "y", "s", "i", "s", " ", "C", "o", "m", "p", "l",
        "e", "t", "e", "!">>, << >>),
      Element("markdown", Heading(topic), << >>)>>

\* ResultElements whose download carries the heading in front of the text.
ResultElementsWithHeading(topic, type, text) ==
    <<Element("markdown", text, << >>),
      Element("download_button", Heading(topic) \o text, FileName(topic, type))>>

\* Lines 149-157: the generated text and the download button.
ResultElements(topic, type, text) ==
    <<Element("markdown", text, << >>),
      Element("download_button", text, FileName(topic, type))>>

\* Guard that forgets the recording.
GuardButtonOnly(file, button) == button

\* Line 126.
Guard(file, button) == file /= NoFile /\ button

\* Lines 163-164.
Remove(files, path) ==
    IF path \in DOMAIN files
    THEN [n \in DOMAIN files \ {path} |-> files[n]]
    ELSE files

-----------------------------------------------------------------------------
\* The script run.

\* ConfigureFails that never sees the missing key.
ConfigureNeverFails(cred) == FALSE

\* Lines 9-13: st.secrets["GEMINI_API_KEY"] raises KeyError when the key is not
\* set; genai.configure accepts any key that is set.
ConfigureFails(cred) == cred = "missing"

\* Lines 9-121 of a run: configure, render the static page, read the widgets.
\* Script variables are fresh in every run.
RunStart(button) ==
    /\ generate_button' = button
    /\ banner' = ConfigureFails(credential)
    /\ rendered' = << >>
    /\ temp_audio' = 0
    /\ temp_audio_path' = 0
    /\ audio_file' = None
    /\ prompt' = None
    /\ response' = None
    /\ exc' = None
    /\ propagated' = None
    /\ remoteFailure' = "none"
    /\ uploadCalls' = 0
    /\ generateCalls' = 0
    /\ UNCHANGED <<credential, fs>>

Init ==
    /\ credential \in Credentials
    /\ lecture_topic = DefaultTopic
    /\ output_type = StudyNotes
    /\ uploaded_file = NoFile
    /\ generate_button = FALSE
    /\ pc = "Idle"
    /\ banner = ConfigureFails(credential)
    /\ rendered = << >>
    /\ fs = << >>
    /\ temp_audio = 0
    /\ temp_audio_path = 0
    /\ audio_file = None
    /\ prompt = None
    /\ response = None
    /\ exc = None
    /\ propagated = None
    /\ remoteFailure = "none"
    /\ uploadCalls = 0
    /\ generateCalls = 0

\* The user edits the topic: a run without the button.
ChangeTopic ==
    /\ pc = "Idle"
    /\ \E t \in Topics : lecture_topic' = t
    /\ RunStart(FALSE)
    /\ UNCHANGED <<output_type, uploaded_file, pc>>

\* The user picks an output type: a run without the button.
ChangeOutputType ==
    /\ pc = "Idle"
    /\ \E m \in OutputTypes : output_type' = m
    /\ RunStart(FALSE)
    /\ UNCHANGED <<lecture_topic, uploaded_file, pc>>

\* The user selects or clears the recording: a run without the button.
ChangeUpload ==
    /\ pc = "Idle"
    /\ \E f \in Recordings \cup {NoFile} : uploaded_file' = f
    /\ RunStart(FALSE)
    /\ UNCHANGED <<lecture_topic, output_type, pc>>

\* The user presses the generate button: lines 9-126 of the run it starts.
ClickGenerate ==
    /\ pc = "Idle"
    /\ RunStart(TRUE)
    /\ pc' = IF Guard(uploaded_file, TRUE) THEN "Create" ELSE "Idle"
    /\ UNCHANGED <<lecture_topic, output_type, uploaded_file>>

\* Line 129: NamedTemporaryFile(delete=False) creates a file under a fresh name,
\* or raises.
CreateTemp ==
    /\ pc = "Create"
    /\ \/ /\ \E n \in TempNames \ DOMAIN fs :
                /\ fs' = (n :> Empty) @@ fs
                /\ temp_audio' = n
          /\ pc' = "Write"
          /\ UNCHANGED propagated
       \/ /\ propagated' = Some(StagingError)
          /\ pc' = "Idle"
          /\ UNCHANGED <<fs, temp_audio>>
    /\ UNCHANGED <<credential, lecture_topic, output_type, uploaded_file, generate_button,
                   banner, rendered, temp_audio_path, audio_file, prompt, response, exc,
                   remoteFailure, uploadCalls, generateCalls>>

\* Lines 130-131: the payload is read and written and the path is kept; when the
\* read or the write raises, the with block closes the file, which stays on disk
\* (delete=False), and the exception leaves the run: line 133 is not reached.
WriteTemp ==
    /\ pc = "Write"
    /\ \/ /\ fs' = [fs EXCEPT ![temp_audio] = uploaded_file]
          /\ temp_audio_path' = temp_audio
          /\ pc' = "Staged"
          /\ UNCHANGED propagated
       \/ /\ Cardinality(DOMAIN fs) <= MaxLeaks
          /\ \E c \in {Empty, Partial} : fs' = [fs EXCEPT ![temp_audio] = c]
          /\ propagated' = Some(StagingError)
          /\ pc' = "Idle"
          /\ UNCHANGED temp_audio_path
    /\ UNCHANGED <<credential, lecture_topic, output_type, uploaded_file, generate_button,
                   banner, rendered, temp_audio, audio_file, prompt, response, exc,
                   remoteFailure, uploadCalls, generateCalls>>

\* Line 135: genai.upload_file is called with the path.
UploadStart ==
    /\ pc = "Staged"
    /\ uploadCalls' = uploadCalls + 1
    /\ pc' = "Uploading"
    /\ UNCHANGED <<credential, lecture_topic, output_type, uploaded_file, generate_button,
                   banner, rendered, fs, temp_audio, temp_audio_path, audio_file, prompt,
                   response, exc, propagated, remoteFailure, generateCalls>>

\* The service accepts a call only with a valid credential.
RemoteAccepts(cred) == cred = "valid"

\* Line 135: genai.upload_file returns a handle of the content, or raises.
UploadReturn ==
    /\ pc = "Uploading"
    /\ \/ /\ RemoteAccepts(credential)
          /\ audio_file' = Some([name |-> temp_audio_path, content |-> fs[temp_audio_path]])
          /\ pc' = "Uploaded"
          /\ UNCHANGED <<exc, remoteFailure>>
       \/ /\ \E e \in RemoteErrors : exc' = Some(e)
          /\ remoteFailure' = "upload"
          /\ pc' = "Except"
          /\ UNCHANGED audio_file
    /\ UNCHANGED <<credential, lecture_topic, output_type, uploaded_file, generate_button,
                   banner, rendered, fs, temp_audio, temp_audio_path, prompt, response,
                   propagated, uploadCalls, generateCalls>>

\* Lines 137-145: the prompt is selected and model.generate_content is called.
GenerateStart ==
    /\ pc = "Uploaded"
    /\ prompt' = Some(SelectPrompt(output_type, lecture_topic, audio_file))
    /\ generateCalls' = generateCalls + 1
    /\ pc' = "Generating"
    /\ UNCHANGED <<credential, lecture_topic, output_type, uploaded_file, generate_button,
                   banner, rendered, fs, temp_audio, temp_audio_path, audio_file, response,
                   exc, propagated, remoteFailure, uploadCalls>>

\* Line 145: model.generate_content returns a response, or raises.
GenerateReturn ==
    /\ pc = "Generating"
    /\ \/ /\ RemoteAccepts(credential)
          /\ \E r \in Responses : response' = Some(r)
          /\ pc' = "Render"
          /\ UNCHANGED <<exc, remoteFailure>>
       \/ /\ \E e \in RemoteErrors : exc' = Some(e)
          /\ remoteFailure' = "generate"
          /\ pc' = "Except"
          /\ UNCHANGED response
    /\ UNCHANGED <<credential, lecture_topic, output_type, uploaded_file, generate_button,
                   banner, rendered, fs, temp_audio, temp_audio_path, audio_file, prompt,
                   propagated, uploadCalls, generateCalls>>

\* Lines 147-157: the success indicator and the heading are rendered, then
\* response.text is read: it raises for a response without text, otherwise the
\* text and the download button are rendered.
RenderResult ==
    /\ pc = "Render"
    /\ \/ /\ response[1].kind = "text"
          /\ rendered' = rendered \o SuccessElements(lecture_topic)
                           \o ResultElements(lecture_topic, output_type, response[1].text)
          /\ pc' = "Succeeded"
          /\ UNCHANGED exc
       \/ /\ response[1].kind /= "text"
          /\ rendered' = rendered \o SuccessElements(lecture_topic)
          /\ exc' = Some(TextError)
          /\ pc' = "Except"
    /\ UNCHANGED <<credential, lecture_topic, output_type, uploaded_file, generate_button,
                   banner, fs, temp_audio, temp_audio_path, audio_file, prompt, response,
                   propagated, remoteFailure, uploadCalls, generateCalls>>

\* HandleException that renders the error and tries the upload again.
HandleExceptionRetry ==
    /\ pc = "Except"
    /\ rendered' = Append(rendered, Element("error", ErrorMessage(exc[1]), << >>))
    /\ pc' = "Staged"
    /\ UNCHANGED <<credential, lecture_topic, output_type, uploaded_file, generate_button,
                   banner, fs, temp_audio, temp_audio_path, audio_file, prompt, response,
                   exc, propagated, remoteFailure, uploadCalls, generateCalls>>

\* Lines 159-160: the exception is caught and rendered.
HandleException ==
    /\ pc = "Except"
    /\ rendered' = Append(rendered, Element("error", ErrorMessage(exc[1]), << >>))
    /\ pc' = "Failed"
    /\ UNCHANGED <<credential, lecture_topic, output_type, uploaded_file, generate_button,
                   banner, fs, temp_audio, temp_audio_path, audio_file, prompt, response,
                   exc, propagated, remoteFailure, uploadCalls, generateCalls>>

\* Lines 162-164: the finally block removes the staged file and the run ends.
Cleanup ==
    /\ pc \in {"Succeeded", "Failed"}
    /\ fs' = Remove(fs, temp_audio_path)
    /\ pc' = "Idle"
    /\ UNCHANGED <<credential, lecture_topic, output_type, uploaded_file, generate_button,
                   banner, rendered, temp_audio, temp_audio_path, audio_file, prompt,
                   response, exc, propagated, remoteFailure, uploadCalls, generateCalls>>

Next ==
    \/ ChangeTopic
    \/ ChangeOutputType
    \/ ChangeUpload
    \/ ClickGenerate
    \/ CreateTemp
    \/ WriteTemp
    \/ UploadStart
    \/ UploadReturn
    \/ GenerateStart
    \/ GenerateReturn
    \/ RenderResult
    \/ HandleException
    \/ Cleanup

Spec == Init /\ [][Next]_vars

-----------------------------------------------------------------------------
\* Properties.

Shown(fn) == \E i \in 1..Len(rendered) : rendered[i].fn = fn

Finished == pc = "Idle" /\ generate_button /\ uploaded_file /= NoFile

ExampleTopic == <<"I", "n", "t", "r", "o", " ", "t", "o", " ", "T", "h", "e", "r", "m", "o", "d",
    "y", "n", "a", "m", "i", "c", "s">>

AudioHandles ==
    {None} \cup {Some([name |-> n, content |-> c]) : n \in TempNames, c \in Recordings}

\* C1: once a request that staged a temporary file has finished, that file does
\* not exist, whichever way the request ended.
C1_TempFileRemoved ==
    (pc = "Idle" /\ temp_audio /= 0) => temp_audio \notin DOMAIN fs

\* C2: a run started by the button without a recording stages no file, makes no
\* remote call and renders nothing; a remote call is made only in a run that
\* has a recording and was started by the button.
C2_NoRecordingNoOp ==
    /\ (generate_button /\ uploaded_file = NoFile) =>
           /\ pc = "Idle"
           /\ temp_audio = 0 /\ temp_audio_path = 0
           /\ uploadCalls = 0 /\ generateCalls = 0
           /\ audio_file = None /\ prompt = None /\ response = None
           /\ rendered = << >>
           /\ exc = None /\ propagated = None
    /\ (uploadCalls + generateCalls > 0) => (uploaded_file /= NoFile /\ generate_button)

C2_Witness ==
    /\ pc = "Idle" /\ generate_button /\ uploaded_file = NoFile
    /\ lecture_topic = <<"C", "e", "l", "l", " ", "B", "i", "o", "l", "o", "g", "y">>

\* C3: the download's file name is the topic with spaces replaced by
\* underscores, "_", the lowercased mode and ".md"; for topic "Intro to
\* Thermodynamics" and mode "Study Notes" it is exactly
\* Intro_to_Thermodynamics_study_notes.md, a name without a space.
C3_FileName ==
    \A i \in 1..Len(rendered) :
        rendered[i].fn = "download_button" =>
            /\ rendered[i].file_name =
                   Replace(lecture_topic, " ", "_") \o <<"_">> \o Lower(output_type)
                       \o <<".", "m", "d">>
            /\ (lecture_topic = ExampleTopic /\ output_type = StudyNotes) =>
                   /\ rendered[i].file_name = <<"I", "n", "t", "r", "o", "_", "t", "o", "_", "T",
                       "h", "e", "r", "m", "o", "d", "y", "n", "a", "m", "i", "c", "s", "_", "s",
                       "t", "u", "d", "y", "_", "n", "o", "t", "e", "s", ".", "m", "d">>
                   /\ ~Contains(rendered[i].file_name, <<" ">>)

\* C4: when the upload call or the generation call raised, the exception is
\* caught and does not leave the run, the handler and the cleanup follow, the
\* rendered error message contains the exception's description, no download
\* button is shown, and the page is ready for another click afterwards.
C4_RemoteFailureReported ==
    remoteFailure /= "none" =>
        /\ propagated = None
        /\ exc /= None
        /\ pc \in {"Except", "Failed", "Idle"}
        /\ pc = "Except" => ENABLED HandleException
        /\ pc = "Failed" => ENABLED Cleanup
        /\ pc = "Idle" => ENABLED ClickGenerate
        /\ pc \in {"Failed", "Idle"} =>
               \E i \in 1..Len(rendered) :
                   /\ rendered[i].fn = "error"
                   /\ Contains(rendered[i].body, exc[1].desc)
        /\ ~Shown("download_button")

C4_Witness ==
    /\ pc = "Idle" /\ remoteFailure = "generate"
    /\ Shown("error")

\* C5: when both remote calls succeeded and the response carries text T, the
\* rendered result body and the download's data are both exactly T and the
\* download button is shown.
C5_ResultIsResponseText ==
    (response /= None /\ response[1].kind = "text" /\ pc \in {"Succeeded", "Idle"}) =>
        /\ Len(rendered) = 4
        /\ rendered[3].fn = "markdown" /\ rendered[3].body = response[1].text
        /\ rendered[4].fn = "download_button" /\ rendered[4].body = response[1].text
        /\ ~Shown("error")

C5_Witness ==
    /\ pc = "Idle"
    /\ lecture_topic = <<"C", "e", "l", "l", " ", "B", "i", "o", "l", "o", "g",
        "y">> /\ output_type = Flashcards
    /\ response = Some([kind |-> "text", text |-> FlashcardText])
    /\ Shown("download_button")

\* C6: the prompt passed to the generation call is the one the selected mode
\* and the topic determine, whatever the uploaded audio is; for every mode and
\* topic the selection yields a non-empty text containing the topic, and for
\* Flashcards a text asking for flashcards.
C6_PromptFromModeAndTopic ==
    /\ prompt /= None =>
           /\ \A a \in AudioHandles :
                  prompt[1] = SelectPrompt(output_type, lecture_topic, a)
           /\ Contains(prompt[1], lecture_topic)
           /\ output_type = Flashcards => Contains(prompt[1], <<"f", "l", "a", "s", "h", "c",
               "a", "r", "d", "s">>)
    /\ \A m \in OutputTypes, t \in Topics :
           /\ Len(SelectPrompt(m, t, None)) > Len(t)
           /\ Contains(SelectPrompt(m, t, None), t)

C6_Witness ==
    /\ prompt /= None /\ generateCalls = 1
    /\ lecture_topic = <<"C", "e", "l", "l", " ", "B", "i", "o", "l", "o", "g",
        "y">> /\ output_type = Flashcards
    /\ Contains(prompt[1], <<"C", "e", "l", "l", " ", "B", "i", "o", "l", "o", "g", "y">>)

C8_StageOrder ==
    [][/\ pc' = "Uploading" =>
              (pc = "Staged" /\ fs[temp_audio_path] = uploaded_file)
       /\ pc' = "Generating" =>
              (pc = "Uploaded" /\ audio_file /= None /\ remoteFailure = "none")
       /\ pc' = "Succeeded" => (pc = "Render" /\ Shown("download_button")')
       /\ pc' = "Failed" => (pc = "Except" /\ Shown("error")')
       /\ (pc /= "Idle" /\ pc' = "Idle" /\ temp_audio /= 0) =>
              pc \in {"Succeeded", "Failed"}]_vars

\* C9: a run makes at most one upload call and at most one generation call; a
\* caught exception leads to Failed and a terminal run to Idle with the staged
\* file removed, without another remote call; remote calls are made only in a
\* run the button started, before any exception, and only the button takes the
\* page out of Idle.
C9_NoRetry ==
    [][/\ uploadCalls' <= 1 /\ generateCalls' <= 1
       /\ pc = "Except" =>
              (pc' = "Failed" /\ uploadCalls' = uploadCalls /\ generateCalls' = generateCalls)
       /\ pc \in {"Succeeded", "Failed"} =>
              /\ pc' = "Idle"
              /\ temp_audio_path \notin DOMAIN fs'
              /\ uploadCalls' = uploadCalls /\ generateCalls' = generateCalls
       /\ (uploadCalls' > uploadCalls \/ generateCalls' > generateCalls) =>
              (generate_button /\ exc = None /\ pc \in {"Staged", "Uploaded"})
       /\ (pc = "Idle" /\ pc' /= "Idle") =>
              (generate_button' /\ uploadCalls' = 0 /\ generateCalls' = 0)]_vars

C9_Witness ==
    /\ pc = "Idle" /\ remoteFailure = "upload"
    /\ uploadCalls = 1 /\ generateCalls = 0
    /\ temp_audio_path /= 0 /\ temp_audio_path \notin DOMAIN fs

\* C10: a finished request that entered the try block shows either the whole
\* success output (success indicator, heading, text, download button) or the
\* error message alone.
C10_AllOrNothing ==
    (pc = "Idle" /\ temp_audio_path /= 0) =>
        \/ /\ response /= None
           /\ rendered = SuccessElements(lecture_topic)
                  \o ResultElements(lecture_topic, output_type, response[1].text)
        \/ /\ Len(rendered) = 1
           /\ rendered[1].fn = "error"

====
